---- MODULE Spec2Model ----
(***************************************************************************)
(* A model of lib/logger/browser.js: the factory that configures and       *)
(* returns a Logger class, the filter state held in the class's static     *)
(* fields (_level, _silent, _shouldLogReplicants), the six logging methods *)
(* and _configure.                                                         *)
(*                                                                         *)
(* JavaScript values are tagged records [type |-> ..., val |-> ...] so     *)
(* that typeof, truthiness and the relational operator can be computed as  *)
(* the language computes them.                                             *)
(***************************************************************************)
EXTENDS Naturals, Sequences, FiniteSets, TLC

VARIABLES
    sink,     \* how the host's console answers (fixed by the host)
    facades,  \* per factory call: the static fields of its Logger class, and its Raven
    loggers,  \* the Logger instances constructed so far: their class and name
    last,     \* the operation that ran last
    out       \* what that operation did to the console and to Raven, in order

vars == <<sink, facades, loggers, last, out>>

----------------------------------------------------------------------------
(* Bounds of the model *)

\* Logger instances constructed in one run.
MaxLoggers == 2

\* Values passed to one logging call, in the runs about the filter.  (The
\* runs about the forwarded sequence take their calls from ArgListsCall.)
MaxArgs == 1

----------------------------------------------------------------------------
(* JavaScript values *)

Undefined == [type |-> "undefined"]
Null == [type |-> "null"]
Bool(b) == [type |-> "boolean", val |-> b]
Str(s) == [type |-> "string", val |-> s]
Num(n) == [type |-> "number", inf |-> FALSE, val |-> n]
Infinity == [type |-> "number", inf |-> TRUE, val |-> 0]

\* An object literal with the two (optional) properties of console options.
ConsoleObj(enabled, level) == [type |-> "object", enabled |-> enabled, level |-> level]

\* An object literal with the two (optional) properties of the options.
OptsObj(console, replicants) == [type |-> "object", console |-> console, replicants |-> replicants]

\* The host's console, and a pre-configured Raven client (one per facade).
Console == [type |-> "object", client |-> "console"]
RavenClient(f) == [type |-> "object", client |-> IF f = 1 THEN "Raven1" ELSE "Raven2"]

\* A value passed to a logging method that is an object; shown is what
\* util.inspect renders for it.
Obj(shown) == [type |-> "object", shown |-> shown]

typeof(v) == IF v.type = "null" THEN "object" ELSE v.type

\* ToBoolean, as used by !, || and if.
Truthy(v) ==
    CASE v.type = "undefined" -> FALSE
      [] v.type = "null" -> FALSE
      [] v.type = "boolean" -> v.val
      [] v.type = "string" -> v.val # ""
      [] v.type = "number" -> v.inf \/ v.val # 0
      [] OTHER -> TRUE

\* a || b
Or(a, b) == IF Truthy(a) THEN a ELSE b

\* a > b on the values a property lookup in LOG_LEVELS yields: undefined
\* converts to NaN, and every comparison with NaN is false.
Gt(a, b) ==
    IF a.type # "number" \/ b.type # "number" THEN FALSE
    ELSE IF a.inf THEN ~b.inf
    ELSE IF b.inf THEN FALSE
    ELSE a.val > b.val

----------------------------------------------------------------------------
(* LOG_LEVELS *)

LevelNames == {"trace", "debug", "info", "warn", "error", "_infinite"}

\* levels whose sentinel ranks with error
LOG_LEVELS_finite ==
    [l \in LevelNames |->
        CASE l = "trace" -> Num(0)
          [] l = "debug" -> Num(1)
          [] l = "info" -> Num(2)
          [] l = "warn" -> Num(3)
          [] l = "error" -> Num(4)
          [] l = "_infinite" -> Num(4)]

LOG_LEVELS ==
    [l \in LevelNames |->
        CASE l = "trace" -> Num(0)
          [] l = "debug" -> Num(1)
          [] l = "info" -> Num(2)
          [] l = "warn" -> Num(3)
          [] l = "error" -> Num(4)
          [] l = "_infinite" -> Infinity]

\* a lookup that gives an unknown key the rank of the sentinel
Lookup_sentinel(key) ==
    IF key.type = "string" /\ key.val \in LevelNames
    THEN LOG_LEVELS[key.val]
    ELSE Infinity

\* LOG_LEVELS[key]: a property lookup; a key that names no level yields
\* undefined.  (A key Object.prototype answers, such as "constructor", yields
\* a function; it converts to NaN as undefined does.)
Lookup(key) ==
    IF key.type = "string" /\ key.val \in LevelNames
    THEN LOG_LEVELS[key.val]
    ELSE Undefined

----------------------------------------------------------------------------
(* Inputs *)

\* The five documented levels (ENUM_LEVELS).
ENUM_LEVELS == {"trace", "debug", "info", "warn", "error"}

\* Level strings a configuration may carry: the documented ones, the
\* sentinel key of LOG_LEVELS and a string that names no level.
LevelInputs == ENUM_LEVELS \cup {"_infinite", "verbose"}

Names == {"db", "ui"}

\* What the second argument of the factory may be, for facade f: omitted,
\* or that facade's own client.
Ravens(f) == {Undefined, RavenClient(f)}

BoolInputs == {Undefined, Bool(TRUE), Bool(FALSE)}

ConsoleInputs ==
    {Undefined} \cup
    {ConsoleObj(e, l) : e \in BoolInputs, l \in {Undefined} \cup {Str(s) : s \in LevelInputs}}

\* Every partial configuration, and the omitted argument.
OptsInputs ==
    {Undefined} \cup {OptsObj(c, r) : c \in ConsoleInputs, r \in BoolInputs}

\* The value a reconfigure argument supplies for each field; undefined when
\* it supplies none.
GivenEnabled(opts) ==
    IF opts.type = "object" /\ opts.console.type = "object" THEN opts.console.enabled ELSE Undefined
GivenLevel(opts) ==
    IF opts.type = "object" /\ opts.console.type = "object" THEN opts.console.level ELSE Undefined
GivenReplicants(opts) ==
    IF opts.type = "object" THEN opts.replicants ELSE Undefined
Supplied(v) == v.type # "undefined"

\* The arguments that do not turn the console on.
OptsNotEnabling == {o \in OptsInputs : GivenEnabled(o) # Bool(TRUE)}

\* The arguments of the two-facade runs: either flag, and the level error.
OptsTwo ==
    {OptsObj(ConsoleObj(e, l), r) :
        e \in BoolInputs, l \in {Undefined, Str("error")}, r \in BoolInputs}

Values == {Str("slow query"), Obj("{ ms: 120 }")}

RECURSIVE SeqsUpTo(_, _)
SeqsUpTo(S, n) ==
    IF n = 0 THEN {<<>>}
    ELSE LET shorter == SeqsUpTo(S, n - 1)
         IN  shorter \cup {Append(s, v) : s \in {t \in shorter : Len(t) = n - 1}, v \in S}

ArgLists == SeqsUpTo(Values, MaxArgs)

\* new Error().stack, split into lines; each line is its characters.
\* A host without the stack property yields undefined.
ChromeStack ==
    << <<"E", "r", "r", "o", "r">>,
       <<" ", " ", "a", "t", " ", "_", "i">>,
       <<" ", " ", "a", "t", " ", "w">>,
       <<" ", " ", "a", "t", " ", "m", ".", "j", "s">> >>

Stacks == {Undefined, [type |-> "string", lines |-> ChromeStack]}

\* Firefox and Safari write a frame as function@location; the function is
\* empty for an anonymous caller.
FirefoxStack ==
    << <<"_", "i", "@", "l">>,
       <<"w", "@", "l">>,
       <<"@", "l">>,
       <<"@", "m", ".", "j", "s">> >>

FirefoxNamedStack ==
    << <<"_", "i", "@", "l">>,
       <<"w", "@", "l">>,
       <<"@", "l">>,
       <<"f", "@", "m", ".", "j", "s">> >>

\* a trace the host cut after three lines
ShortStack == SubSeq(ChromeStack, 1, 3)

StackStr(lines) == [type |-> "string", lines |-> lines]

StacksCall ==
    {Undefined, StackStr(ShortStack), StackStr(ChromeStack), StackStr(FirefoxStack),
     StackStr(FirefoxNamedStack)}

\* How the host's console answers: "variadic" when console.log.apply exists.
\* The file is ES2015 syntax (class, default parameters, spread), and every
\* host that parses it gives console.log Function.prototype.apply.
SinkKinds == {"variadic"}

\* The hosts on which console.log has no apply: "callable" when the console
\* is itself a function, "object" when it is the object hosts provide, which
\* cannot be called.
HostKinds == SinkKinds \cup {"callable", "object"}

----------------------------------------------------------------------------
(* The factory and _configure *)

EmptyConsole == ConsoleObj(Undefined, Undefined)
EmptyOpts == OptsObj(Undefined, Undefined)

\* opts = opts || {}; opts.console = opts.console || {};
Normalise(opts) ==
    LET o == Or(opts, EmptyOpts)
    IN  [o EXCEPT !.console = Or(o.console, EmptyConsole)]

\* _silent assigned without the typeof test
SetSilent_unchecked(L, console) ==
    [L EXCEPT !._silent = ~Truthy(console.enabled)]

SetSilent(L, console) ==
    IF typeof(console.enabled) # "undefined"
    THEN [L EXCEPT !._silent = ~Truthy(console.enabled)]
    ELSE L

\* _level assigned without the typeof test
SetLevel_unchecked(L, console) ==
    [L EXCEPT !._level = console.level]

SetLevel(L, console) ==
    IF typeof(console.level) # "undefined"
    THEN [L EXCEPT !._level = console.level]
    ELSE L

\* _shouldLogReplicants assigned only a value that is true
SetReplicants_truthy(L, opts) ==
    IF Truthy(opts.replicants)
    THEN [L EXCEPT !._shouldLogReplicants = opts.replicants]
    ELSE L

SetReplicants(L, opts) ==
    IF typeof(opts.replicants) # "undefined"
    THEN [L EXCEPT !._shouldLogReplicants = opts.replicants]
    ELSE L

_configure(L, opts) ==
    LET o == Normalise(opts)
    IN  SetReplicants(SetLevel(SetSilent(L, o.console), o.console), o)

\* defaults with the console on
Defaults_enabled(Raven) ==
    [_level |-> Str("info"),
     _silent |-> FALSE,
     _shouldLogReplicants |-> Bool(FALSE),
     Raven |-> Raven]

\* Initialize with defaults
Defaults(Raven) ==
    [_level |-> Str("info"),
     _silent |-> TRUE,
     _shouldLogReplicants |-> Bool(FALSE),
     Raven |-> Raven]

\* module.exports = function (initialOpts, Raven)
module_exports(initialOpts, Raven) ==
    _configure(Defaults(Raven), Normalise(initialOpts))

----------------------------------------------------------------------------
(* _invoke *)

Chars(c) == [type |-> "string", chars |-> c]

RECURSIVE DropSpaces(_)
DropSpaces(c) ==
    IF c # <<>> /\ Head(c) = " " THEN DropSpaces(Tail(c)) ELSE c

StartsWith(c, p) == Len(c) >= Len(p) /\ SubSeq(c, 1, Len(p)) = p

\* caller.replace(re, '') for a regular expression / ^ *p / 
StripLeading(c, p) ==
    LET rest == DropSpaces(c)
    IN  IF StartsWith(rest, p) THEN SubSeq(rest, Len(p) + 1, Len(rest)) ELSE c

\* (new Error().stack || '').split('\n')
\* (undefined and the empty string both give the one line '')
StackLines(stack) ==
    IF stack.type = "string" THEN stack.lines ELSE << <<>> >>

\* the caller read one line too early
Caller_thirdLine(stack) ==
    LET stackTrace == StackLines(stack)
        caller == IF Len(stackTrace) >= 3 THEN stackTrace[3] ELSE <<>>
        chrome == StripLeading(caller, <<"a", "t", " ">>)
    IN  StripLeading(chrome, <<"@">>)

Caller(stack) ==
    LET stackTrace == StackLines(stack)
        caller == IF Len(stackTrace) >= 4 THEN stackTrace[4] ELSE <<>>
        chrome == StripLeading(caller, <<"a", "t", " ">>)
    IN  StripLeading(chrome, <<"@">>)

Prefix(this) == Str("[" \o this.name \o "]")

Call(on, method, args) == [kind |-> "call", on |-> on, method |-> method, args |-> args]
Throw(error) == [kind |-> "throw", on |-> Console, method |-> error, args |-> <<>>]

\* _invoke forwarding the supplied values last to first
_invoke_reversed(this, logLevel, args, stack, host) ==
    LET reversed == [k \in DOMAIN args |-> args[Len(args) + 1 - k]]
        logMessage == <<Prefix(this)>> \o reversed \o <<Chars(Caller(stack))>>
    IN  IF host = "variadic"
        THEN <<Call(Console, logLevel, logMessage)>>
        ELSE IF host = "callable"
             THEN <<Call(Console, "()", <<[type |-> "array", items |-> logMessage]>>)>>
             ELSE <<Throw("TypeError")>>

\* The effects of _invoke(logLevel, args) on a host whose console answers as
\* host says.
_invoke(this, logLevel, args, stack, host) ==
    LET logMessage == <<Prefix(this)>> \o args \o <<Chars(Caller(stack))>>
    IN  IF host = "variadic"
        THEN <<Call(Console, logLevel, logMessage)>>
        ELSE IF host = "callable"
             THEN <<Call(Console, "()", <<[type |-> "array", items |-> logMessage]>>)>>
             ELSE <<Throw("TypeError")>>

Threw(effects) == \E k \in DOMAIN effects : effects[k].kind = "throw"

----------------------------------------------------------------------------
(* Error escalation *)

\* util.inspect(argument, {depth: null, showProxy: true})
Inspect(v) == IF v.type = "null" THEN "null" ELSE v.shown

\* typeof argument === 'object' ? inspect(argument, ...) : argument
FormattedArg(v) == IF typeof(v) = "object" THEN Str(Inspect(v)) ELSE v

Digits == <<"0", "1", "2", "3", "4", "5", "6", "7", "8", "9">>

\* The decimal digits of a natural number.
RECURSIVE NumberToString(_)
NumberToString(n) ==
    IF n < 10 THEN Digits[n + 1]
    ELSE NumberToString(n \div 10) \o Digits[(n % 10) + 1]

\* What util.format appends for an argument after the first: a string as it
\* is, a number in decimal.
Text(v) ==
    IF v.type = "number"
    THEN IF v.inf THEN "Infinity" ELSE NumberToString(v.val)
    ELSE v.val

\* util.format(first, ...rest) for a first string without placeholders: the
\* rest follow it, each after one space.
RECURSIVE Format(_, _)
Format(first, rest) ==
    IF rest = <<>> THEN first
    ELSE Format(first \o " " \o Text(Head(rest)), Tail(rest))

ErrorObj(message) == [type |-> "object", error |-> message]

\* Raven.captureException(new Error(format(`[${this.name}]`, ...formattedArgs)),
\*                        {logger: 'client @nodecg/logger'})
Capture(Raven, this, args) ==
    LET formattedArgs == [k \in DOMAIN args |-> FormattedArg(args[k])]
    IN  Call(Raven, "captureException",
             <<ErrorObj(Format(Prefix(this).val, formattedArgs)),
               [type |-> "object", logger |-> "client @nodecg/logger"]>>)

----------------------------------------------------------------------------
(* The logging methods: the effects of one call, in order.  L is the class *)
(* (its static fields and the Raven its closure holds), this the instance. *)

trace(L, this, args, stack, host) ==
    IF L._silent THEN <<>>
    ELSE IF Gt(Lookup(L._level), LOG_LEVELS["trace"]) THEN <<>>
    ELSE _invoke(this, "info", args, stack, host)

\* debug writing to a console method of its own name
debug_own(L, this, args, stack, host) ==
    IF L._silent THEN <<>>
    ELSE IF Gt(Lookup(L._level), LOG_LEVELS["debug"]) THEN <<>>
    ELSE _invoke(this, "debug", args, stack, host)

debug(L, this, args, stack, host) ==
    IF L._silent THEN <<>>
    ELSE IF Gt(Lookup(L._level), LOG_LEVELS["debug"]) THEN <<>>
    ELSE _invoke(this, "info", args, stack, host)

info(L, this, args, stack, host) ==
    IF L._silent THEN <<>>
    ELSE IF Gt(Lookup(L._level), LOG_LEVELS["info"]) THEN <<>>
    ELSE _invoke(this, "info", args, stack, host)

\* warn with the comparison turned inclusive
warn_inclusive(L, this, args, stack, host) ==
    IF L._silent THEN <<>>
    ELSE IF ~Gt(LOG_LEVELS["warn"], Lookup(L._level)) THEN <<>>
    ELSE _invoke(this, "warn", args, stack, host)

warn(L, this, args, stack, host) ==
    IF L._silent THEN <<>>
    ELSE IF Gt(Lookup(L._level), LOG_LEVELS["warn"]) THEN <<>>
    ELSE _invoke(this, "warn", args, stack, host)

\* error with the comparison turned inclusive
error_inclusive(L, this, args, stack, host) ==
    IF L._silent THEN <<>>
    ELSE IF ~Gt(LOG_LEVELS["error"], Lookup(L._level)) THEN <<>>
    ELSE LET logged == _invoke(this, "error", args, stack, host)
         IN  IF Threw(logged) THEN logged
             ELSE IF Truthy(L.Raven) THEN logged \o <<Capture(L.Raven, this, args)>>
             ELSE logged

\* error reporting to Raven before it writes to the console
error_captureFirst(L, this, args, stack, host) ==
    IF L._silent THEN <<>>
    ELSE IF Gt(Lookup(L._level), LOG_LEVELS["error"]) THEN <<>>
    ELSE LET logged == _invoke(this, "error", args, stack, host)
         IN  IF Truthy(L.Raven)
             THEN <<Capture(L.Raven, this, args)>> \o logged
             ELSE logged

\* error testing Raven against undefined only
error_definedRaven(L, this, args, stack, host) ==
    IF L._silent THEN <<>>
    ELSE IF Gt(Lookup(L._level), LOG_LEVELS["error"]) THEN <<>>
    ELSE LET logged == _invoke(this, "error", args, stack, host)
         IN  IF Threw(logged) THEN logged
             ELSE IF L.Raven.type # "undefined"
                  THEN logged \o <<Capture(L.Raven, this, args)>>
             ELSE logged

\* error without the test of _silent
error_unsilenced(L, this, args, stack, host) ==
    IF Gt(Lookup(L._level), LOG_LEVELS["error"]) THEN <<>>
    ELSE LET logged == _invoke(this, "error", args, stack, host)
         IN  IF Threw(logged) THEN logged
             ELSE IF Truthy(L.Raven) THEN logged \o <<Capture(L.Raven, this, args)>>
             ELSE logged

error(L, this, args, stack, host) ==
    IF L._silent THEN <<>>
    ELSE IF Gt(Lookup(L._level), LOG_LEVELS["error"]) THEN <<>>
    ELSE LET logged == _invoke(this, "error", args, stack, host)
         IN  IF Threw(logged) THEN logged
             ELSE IF Truthy(L.Raven) THEN logged \o <<Capture(L.Raven, this, args)>>
             ELSE logged

\* replicants gated by the threshold as info is
replicants_levelled(L, this, args, stack, host) ==
    IF L._silent THEN <<>>
    ELSE IF ~Truthy(L._shouldLogReplicants) THEN <<>>
    ELSE IF Gt(Lookup(L._level), LOG_LEVELS["info"]) THEN <<>>
    ELSE _invoke(this, "info", args, stack, host)

replicants(L, this, args, stack, host) ==
    IF L._silent THEN <<>>
    ELSE IF ~Truthy(L._shouldLogReplicants) THEN <<>>
    ELSE _invoke(this, "info", args, stack, host)

----------------------------------------------------------------------------
(* Operations *)

Op(op, f, i, opts) == [op |-> op, facade |-> f, logger |-> i, opts |-> opts]

\* a constructor that sets the class's level back to its default
Construct_resetting(f, name) ==
    /\ Len(loggers) < MaxLoggers
    /\ loggers' = Append(loggers, [facade |-> f, name |-> name])
    /\ facades' = [facades EXCEPT ![f]._level = Str("info")]
    /\ last' = Op("new", f, Len(loggers) + 1, Undefined)
    /\ out' = <<>>
    /\ UNCHANGED sink

\* a constructor that sets the class's fields back to their defaults
Construct_initialising(f, name) ==
    /\ Len(loggers) < MaxLoggers
    /\ loggers' = Append(loggers, [facade |-> f, name |-> name])
    /\ facades' = [facades EXCEPT ![f] = Defaults(@.Raven)]
    /\ last' = Op("new", f, Len(loggers) + 1, Undefined)
    /\ out' = <<>>
    /\ UNCHANGED sink

\* new Logger(name), of the class facade f returned
Construct(f, name) ==
    /\ Len(loggers) < MaxLoggers
    /\ loggers' = Append(loggers, [facade |-> f, name |-> name])
    /\ last' = Op("new", f, Len(loggers) + 1, Undefined)
    /\ out' = <<>>
    /\ UNCHANGED <<sink, facades>>

\* globalReconfigure writing to state that every class shares
Reconfigure_everywhere(f, opts) ==
    /\ facades' = [g \in DOMAIN facades |-> _configure(facades[g], opts)]
    /\ last' = Op("globalReconfigure", f, 0, opts)
    /\ out' = <<>>
    /\ UNCHANGED <<sink, loggers>>

\* Logger.globalReconfigure(opts), of the class facade f returned
Reconfigure(f, opts) ==
    /\ facades' = [facades EXCEPT ![f] = _configure(@, opts)]
    /\ last' = Op("globalReconfigure", f, 0, opts)
    /\ out' = <<>>
    /\ UNCHANGED <<sink, loggers>>

Class(i) == facades[loggers[i].facade]

\* The effects of a call of method m on instance i in the current state.
CallOf(m, i, args, stack) ==
    CASE m = "trace" -> trace(Class(i), loggers[i], args, stack, sink)
      [] m = "debug" -> debug(Class(i), loggers[i], args, stack, sink)
      [] m = "info" -> info(Class(i), loggers[i], args, stack, sink)
      [] m = "warn" -> warn(Class(i), loggers[i], args, stack, sink)
      [] m = "error" -> error(Class(i), loggers[i], args, stack, sink)
      [] m = "replicants" -> replicants(Class(i), loggers[i], args, stack, sink)

\* What a logging call was given: its arguments, and the stack the host
\* attaches to the Error that _invoke creates.
Arguments(args, stack) == [type |-> "arguments", args |-> args, stack |-> stack]

\* A call of method m on instance i, the operation keeping what it was given.
Called(m, i, args, stack) ==
    /\ out' = CallOf(m, i, args, stack)
    /\ last' = Op(m, loggers[i].facade, i, Arguments(args, stack))
    /\ UNCHANGED <<sink, facades, loggers>>

Logged(i, method, effects) ==
    /\ out' = effects
    /\ last' = Op(method, loggers[i].facade, i, Undefined)
    /\ UNCHANGED <<sink, facades, loggers>>

Trace(i, args, stack) == Logged(i, "trace", trace(Class(i), loggers[i], args, stack, sink))
Debug(i, args, stack) == Logged(i, "debug", debug(Class(i), loggers[i], args, stack, sink))
Info(i, args, stack) == Logged(i, "info", info(Class(i), loggers[i], args, stack, sink))
Warn(i, args, stack) == Logged(i, "warn", warn(Class(i), loggers[i], args, stack, sink))
Error(i, args, stack) == Logged(i, "error", error(Class(i), loggers[i], args, stack, sink))
Replicants(i, args, stack) ==
    Logged(i, "replicants", replicants(Class(i), loggers[i], args, stack, sink))

----------------------------------------------------------------------------
(* What a page may do next, with reconfigure arguments drawn from optsIn,   *)
(* instance names from namesIn, logged values from argsIn and stack traces  *)
(* from stacksIn                                                            *)

Step(optsIn, namesIn, argsIn, stacksIn) ==
    \/ \E f \in DOMAIN facades, name \in namesIn : Construct(f, name)
    \/ \E f \in DOMAIN facades, opts \in optsIn : Reconfigure(f, opts)
    \/ \E i \in DOMAIN loggers, args \in argsIn, stack \in stacksIn : Trace(i, args, stack)
    \/ \E i \in DOMAIN loggers, args \in argsIn, stack \in stacksIn : Debug(i, args, stack)
    \/ \E i \in DOMAIN loggers, args \in argsIn, stack \in stacksIn : Info(i, args, stack)
    \/ \E i \in DOMAIN loggers, args \in argsIn, stack \in stacksIn : Warn(i, args, stack)
    \/ \E i \in DOMAIN loggers, args \in argsIn, stack \in stacksIn : Error(i, args, stack)
    \/ \E i \in DOMAIN loggers, args \in argsIn, stack \in stacksIn : Replicants(i, args, stack)

\* The state after the factory calls of the page, which made the classes fs.
Made(fs) ==
    /\ sink \in SinkKinds
    /\ facades = fs
    /\ loggers = <<>>
    /\ last = Op("initialize", Len(fs), 0, Undefined)
    /\ out = <<>>

----------------------------------------------------------------------------
(* One facade: every configuration, every level *)

Init ==
    \E initialOpts \in OptsInputs, Raven \in Ravens(1) :
        Made(<<module_exports(initialOpts, Raven)>>)

Next == Step(OptsInputs, Names, ArgLists, Stacks)

Spec == Init /\ [][Next]_vars

----------------------------------------------------------------------------
(* One facade made with no configuration, never asked to turn the console on *)

InitQuiet ==
    \E initialOpts \in {Undefined, EmptyOpts}, Raven \in Ravens(1) :
        Made(<<module_exports(initialOpts, Raven)>>)

NextQuiet == Step(OptsNotEnabling, Names, ArgLists, Stacks)

SpecQuiet == InitQuiet /\ [][NextQuiet]_vars

----------------------------------------------------------------------------
(* Two facades from two calls of the factory, each given its own client *)

InitTwo ==
    \E opts1 \in OptsTwo, opts2 \in OptsTwo :
        Made(<<module_exports(opts1, RavenClient(1)), module_exports(opts2, RavenClient(2))>>)

\* (one name, and calls that pass one value on a host without stack traces)
NextTwo == Step(OptsTwo, {"db"}, {<<Obj("{ ms: 120 }")>>}, {Undefined})

SpecTwo == InitTwo /\ [][NextTwo]_vars

----------------------------------------------------------------------------
(* One facade whose second factory argument is omitted, null or a client *)

InitRaven ==
    \E initialOpts \in OptsInputs, Raven \in {Undefined, Null, RavenClient(1)} :
        Made(<<module_exports(initialOpts, Raven)>>)

\* (one name, on a host without stack traces)
NextRaven == Step(OptsInputs, {"db"}, ArgLists, {Undefined})

SpecRaven == InitRaven /\ [][NextRaven]_vars

----------------------------------------------------------------------------
(* One facade, the first operation keeping the configuration it was given *)

Started(fs, initialOpts) ==
    /\ sink \in SinkKinds
    /\ facades = fs
    /\ loggers = <<>>
    /\ last = Op("initialize", Len(fs), 0, initialOpts)
    /\ out = <<>>

InitConfig ==
    \E initialOpts \in OptsInputs, Raven \in Ravens(1) :
        Started(<<module_exports(initialOpts, Raven)>>, initialOpts)

\* (one name, calls without values, on a host without stack traces)
NextConfig == Step(OptsInputs, {"db"}, {<<>>}, {Undefined})

SpecConfig == InitConfig /\ [][NextConfig]_vars

----------------------------------------------------------------------------
(* One facade that emits everything, its calls keeping their arguments *)

\* The calls of these runs: without a value, with one, with two in either
\* order, and with three.
ArgListsCall ==
    {<<>>,
     <<Obj("{ ms: 120 }")>>,
     <<Str("slow query"), Num(120)>>,
     <<Num(120), Str("slow query")>>,
     <<Str("slow query"), Obj("{ ms: 120 }"), Num(120)>>}

OptsVerbose == OptsObj(ConsoleObj(Bool(TRUE), Str("trace")), Bool(TRUE))

\* options that switch the console off and on again
OptsCall == {OptsObj(ConsoleObj(b, Undefined), Undefined) : b \in BoolInputs}

InitCall == Made(<<module_exports(OptsVerbose, RavenClient(1))>>)

NextCall ==
    \/ \E name \in Names : Construct(1, name)
    \/ \E opts \in OptsCall : Reconfigure(1, opts)
    \/ \E m \in ENUM_LEVELS \cup {"replicants"}, i \in DOMAIN loggers,
          args \in ArgListsCall, stack \in StacksCall :
           Called(m, i, args, stack)

SpecCall == InitCall /\ [][NextCall]_vars

----------------------------------------------------------------------------
(* One facade on each kind of host *)

InitHost ==
    /\ sink \in HostKinds
    /\ \E Raven \in Ravens(1) : facades = <<module_exports(OptsVerbose, Raven)>>
    /\ loggers = <<>>
    /\ last = Op("initialize", 1, 0, Undefined)
    /\ out = <<>>

\* (one name, with and without a stack trace)
NextHost == Step(OptsTwo, {"db"}, ArgLists, Stacks)

SpecHost == InitHost /\ [][NextHost]_vars

----------------------------------------------------------------------------
(* Vocabulary of the properties *)

\* The severity levels in their order, and the rank of a level in it.
Severity == <<"trace", "debug", "info", "warn", "error">>
Rank(l) == CHOOSE k \in DOMAIN Severity : Severity[k] = l

Methods == ENUM_LEVELS \cup {"replicants"}

\* The class the last operation acted on.
Shared == facades[last.facade]

consoleEnabled == ~Shared._silent
Threshold == Shared._level
HasThreshold(S) == Threshold.type = "string" /\ Threshold.val \in S
replicantLoggingEnabled == Truthy(Shared._shouldLogReplicants)
HasCapability == Shared.Raven.type = "object"

IsSinkCall(e) == e.kind = "call" /\ e.on = Console
IsCapture(e) == e.kind = "call" /\ e.on # Console

SinkCalls(effects) == Cardinality({k \in DOMAIN effects : IsSinkCall(effects[k])})
Captures(effects) == Cardinality({k \in DOMAIN effects : IsCapture(effects[k])})

----------------------------------------------------------------------------
(* Properties *)

\* C1: with the console enabled and the threshold T one of the five levels,
\* a call of the method for level M makes exactly one sink invocation when
\* rank(M) >= rank(T) and none when rank(M) < rank(T), in every reachable
\* state.
C1_ThresholdFilter ==
    (last.op \in ENUM_LEVELS /\ consoleEnabled /\ HasThreshold(ENUM_LEVELS))
        => SinkCalls(out) = IF Rank(last.op) >= Rank(Threshold.val) THEN 1 ELSE 0

\* A warn call at threshold warn was emitted (the boundary of C1).
C1_Witness ==
    /\ last.op = "warn" /\ consoleEnabled /\ HasThreshold({"warn"})
    /\ SinkCalls(out) = 1

\* C2: while the console is disabled, a call of any of the six methods makes
\* no sink invocation and no capture, whatever the threshold, the replicants
\* flag and the capability are.
C2_DisabledSilencesAll ==
    (last.op \in Methods /\ ~consoleEnabled) => out = <<>>

\* An error call with a capability present, the lowest threshold and the
\* replicants flag set did nothing because the console is disabled.
C2_Witness ==
    /\ last.op = "error" /\ ~consoleEnabled /\ HasCapability
    /\ HasThreshold({"trace"}) /\ replicantLoggingEnabled
    /\ out = <<>>

\* C3: with the console enabled, a replicants call makes exactly one sink
\* invocation when the replicants flag is set and none when it is not, for
\* every value of the threshold.
C3_ReplicantsIgnoreLevel ==
    (last.op = "replicants" /\ consoleEnabled)
        => SinkCalls(out) = IF replicantLoggingEnabled THEN 1 ELSE 0

\* A replicants call was emitted at threshold error.
C3_Witness ==
    /\ last.op = "replicants" /\ consoleEnabled /\ HasThreshold({"error"})
    /\ replicantLoggingEnabled /\ SinkCalls(out) = 1

\* In the state a reconfigure call left: the configuration its argument
\* asks for, each field it omits read from the shared state.
NewEnabled ==
    IF Supplied(GivenEnabled(last.opts)) THEN GivenEnabled(last.opts).val ELSE consoleEnabled
NewLevel ==
    IF Supplied(GivenLevel(last.opts)) THEN GivenLevel(last.opts) ELSE Threshold
NewReplicants ==
    IF Supplied(GivenReplicants(last.opts)) THEN GivenReplicants(last.opts).val
    ELSE replicantLoggingEnabled
Permitted(m) ==
    /\ NewEnabled
    /\ IF m = "replicants" THEN NewReplicants ELSE Rank(m) >= Rank(NewLevel.val)

SameOutcome(i, j) ==
    \A m \in Methods, args \in ArgLists, stack \in Stacks :
        SinkCalls(CallOf(m, i, args, stack)) = SinkCalls(CallOf(m, j, args, stack))

InstancesAgree ==
    \A i, j \in DOMAIN loggers :
        (i < j /\ loggers[i].facade = loggers[j].facade) => SameOutcome(i, j)

\* A logging call on the class that was reconfigured by the operation just
\* before it, the new threshold being one of the five levels.
CallAfterReconfigure ==
    /\ last.op = "globalReconfigure"
    /\ NewLevel.type = "string" /\ NewLevel.val \in ENUM_LEVELS
    /\ last'.op \in Methods /\ last'.facade = last.facade

\* An instance constructed on the class that was reconfigured by the
\* operation just before the construction, the new threshold being one of
\* the five levels.
ConstructedAfterReconfigure ==
    /\ last'.op = "new" /\ last'.facade = last.facade
    /\ last.op = "globalReconfigure"
    /\ NewLevel.type = "string" /\ NewLevel.val \in ENUM_LEVELS

\* C4: the logging call that follows a reconfigure call, on any instance of
\* that facade, is emitted exactly when the configuration the reconfigure
\* call asked for permits it: on an instance constructed before the
\* reconfigure, and on the instance constructed after it, whose next call,
\* whatever its method and arguments, follows that configuration too; and
\* in every state any two instances of one facade have the same outcome for
\* the same call.
C4_ReconfigureImmediate ==
    /\ []InstancesAgree
    /\ [][CallAfterReconfigure => SinkCalls(out') = IF Permitted(last'.op) THEN 1 ELSE 0]_vars
    /\ [][ConstructedAfterReconfigure =>
             \A i \in {last'.logger}, m \in Methods, args \in ArgLists, stack \in Stacks :
                 SinkCalls(CallOf(m, i, args, stack)') =
                     IF Permitted(m) THEN 1 ELSE 0]_vars

\* Two instances with different names exist, reconfigure has just set the
\* level to error, and an info call on either would be suppressed while an
\* error call on either would be emitted.
C4_Witness ==
    /\ last.op = "globalReconfigure" /\ GivenLevel(last.opts) = Str("error")
    /\ ~Supplied(GivenEnabled(last.opts)) /\ consoleEnabled
    /\ Len(loggers) = 2 /\ loggers[1].name # loggers[2].name
    /\ \A i \in DOMAIN loggers, args \in ArgLists, stack \in Stacks :
           /\ CallOf("info", i, args, stack) = <<>>
           /\ SinkCalls(CallOf("error", i, args, stack)) = 1

\* C5: a reconfigure call leaves every field of the shared state that its
\* argument does not supply as it was before the call.
C5_PartialUpdate ==
    [][last'.op = "globalReconfigure" =>
         LET before == facades[last'.facade]
             after == facades'[last'.facade]
         IN  /\ ~Supplied(GivenEnabled(last'.opts)) => after._silent = before._silent
             /\ ~Supplied(GivenLevel(last'.opts)) => after._level = before._level
             /\ ~Supplied(GivenReplicants(last'.opts)) =>
                    after._shouldLogReplicants = before._shouldLogReplicants]_vars

\* reconfigure({replicants: true}) ran and the level and the enablement
\* still have values that are not the defaults.
C5_Witness ==
    /\ last.op = "globalReconfigure"
    /\ last.opts = OptsObj(Undefined, Bool(TRUE))
    /\ consoleEnabled /\ HasThreshold({"warn"}) /\ replicantLoggingEnabled

\* C6: with a capability supplied and the console enabled, an error call at
\* any of the five thresholds makes exactly one capture call, on that
\* capability, tagged 'client @nodecg/logger'.
C6_ErrorEscalatesOnce ==
    (last.op = "error" /\ HasCapability /\ consoleEnabled /\ HasThreshold(ENUM_LEVELS))
        => /\ Captures(out) = 1
           /\ \A k \in DOMAIN out :
                  IsCapture(out[k]) =>
                      /\ out[k].on = Shared.Raven
                      /\ out[k].method = "captureException"
                      /\ out[k].args[2].logger = "client @nodecg/logger"

\* An error call at threshold error reached the capability.
C6_Witness ==
    /\ last.op = "error" /\ HasCapability /\ consoleEnabled /\ HasThreshold({"error"})
    /\ Captures(out) = 1

\* C7 as claimed: with the console enabled and a level that names no known
\* level, calls of the five level methods make no sink invocation.
C7_UnknownLevelSuppresses ==
    (last.op \in ENUM_LEVELS /\ consoleEnabled /\ ~HasThreshold(LevelNames))
        => SinkCalls(out) = 0

\* C7 amended: a level that names no known level is stored as given, every
\* rank comparison with it is false, and nothing is filtered by level: with
\* the console enabled each call of the five level methods makes exactly
\* one sink invocation.
C7_UnknownLevelPassesAll ==
    (last.op \in ENUM_LEVELS /\ consoleEnabled /\ ~HasThreshold(LevelNames))
        => /\ \A l \in LevelNames : ~Gt(Lookup(Threshold), LOG_LEVELS[l])
           /\ SinkCalls(out) = 1

\* A trace call was emitted under the level "verbose".
C7_Witness ==
    /\ last.op = "trace" /\ consoleEnabled /\ Threshold = Str("verbose")
    /\ SinkCalls(out) = 1

\* The facades other than the one the last operation acted on.
Others == DOMAIN facades \ {last.facade}

\* What each method would do now, called on instance i with one value.
Outcomes(i) ==
    [m \in Methods |-> CallOf(m, i, <<Obj("{ ms: 120 }")>>, Undefined)]

\* C8: an operation on one facade (a reconfigure call, a construction, a
\* logging call) leaves the shared state of every other facade unchanged, and
\* a reconfigure call leaves what every call on the other facade's instances
\* does unchanged; and a logging call reaches no capability but the one its
\* own facade was given.
C8_FacadesIndependent ==
    /\ [][\A g \in Others' : facades'[g] = facades[g]]_vars
    /\ [][last'.op = "globalReconfigure" =>
             \A i \in DOMAIN loggers :
                 loggers[i].facade # last'.facade => Outcomes(i)' = Outcomes(i)]_vars
    /\ [](last.op \in Methods =>
             \A k \in DOMAIN out : IsCapture(out[k]) =>
                 /\ out[k].on = Shared.Raven
                 /\ \A g \in Others : out[k].on # facades[g].Raven)

\* reconfigure has just raised the level of facade 2 to error and turned
\* its console on; facade 1 is still at info with its console on, an info
\* call on its instance is emitted and one on facade 2's is suppressed, and
\* an error call on facade 2's instance reaches the second capability only.
C8_Witness ==
    /\ Len(facades) = 2 /\ Len(loggers) = 2
    /\ last.op = "globalReconfigure" /\ last.facade = 2
    /\ GivenLevel(last.opts) = Str("error") /\ GivenEnabled(last.opts) = Bool(TRUE)
    /\ facades[1]._level = Str("info") /\ ~facades[1]._silent
    /\ facades[1].Raven = RavenClient(1) /\ facades[2].Raven = RavenClient(2)
    /\ loggers[1].facade = 1 /\ loggers[2].facade = 2
    /\ \A args \in ArgLists, stack \in Stacks :
           /\ SinkCalls(CallOf("info", 1, args, stack)) = 1
           /\ CallOf("info", 2, args, stack) = <<>>
           /\ \E k \in DOMAIN CallOf("error", 2, args, stack) :
                  CallOf("error", 2, args, stack)[k].on = RavenClient(2)

\* C9: after the factory was called with no configuration, and while no
\* reconfigure call has supplied console.enabled = true, a call of any
\* method on any instance makes no sink invocation and no capture.
C9_DefaultsAreSilent ==
    last.op \in Methods => out = <<>>

\* An error call did nothing although a capability is present and
\* reconfigure calls have lowered the threshold to trace and set the
\* replicants flag.
C9_Witness ==
    /\ last.op = "error" /\ HasCapability /\ HasThreshold({"trace"})
    /\ replicantLoggingEnabled /\ out = <<>>

\* C10: reconfigure with an empty object or with no argument changes no
\* field of any shared state and has no other effect, wherever it occurs.
C10_EmptyReconfigureNoOp ==
    [][(last'.op = "globalReconfigure" /\ last'.opts \in {Undefined, EmptyOpts})
          => facades' = facades /\ loggers' = loggers /\ out' = <<>>]_vars

\* reconfigure({}) ran on a state in which no field has its default.
C10_Witness ==
    /\ last.op = "globalReconfigure" /\ last.opts = EmptyOpts
    /\ consoleEnabled /\ HasThreshold({"warn"}) /\ replicantLoggingEnabled

\* C11: a capture call is made only by the error method and only on a
\* capability that was supplied; trace, debug, info, warn and replicants
\* never make one; and an error call that passes the filter with no
\* capability (undefined or null) has one effect only, its sink invocation,
\* and does not fail.
C11_EscalationOnlyFromError ==
    /\ Captures(out) > 0 => (last.op = "error" /\ HasCapability)
    /\ (last.op = "error" /\ ~HasCapability /\ consoleEnabled /\ Threshold # Str("_infinite"))
           => (Len(out) = 1 /\ IsSinkCall(out[1]))

\* An error call on a facade that was given null made its sink invocation
\* and nothing else.
C11_Witness ==
    /\ last.op = "error" /\ Shared.Raven = Null /\ consoleEnabled
    /\ Len(out) = 1 /\ IsSinkCall(out[1])

\* The sink channel the specification gives each method.
Channel(m) ==
    CASE m \in {"trace", "debug", "info", "replicants"} -> "info"
      [] m = "warn" -> "warn"
      [] m = "error" -> "error"

\* C12: the channel of a sink invocation is fixed by the method called:
\* trace, debug, info and replicants use "info", warn uses "warn", error
\* uses "error", whatever the threshold and the rest of the shared state.
C12_ChannelFixedByMethod ==
    last.op \in Methods =>
        \A k \in DOMAIN out : IsSinkCall(out[k]) => out[k].method = Channel(last.op)

\* A debug call at threshold trace reached the sink on the "info" channel.
C12_Witness ==
    /\ last.op = "debug" /\ HasThreshold({"trace"})
    /\ Len(out) = 1 /\ IsSinkCall(out[1]) /\ out[1].method = "info"

\* C14: with the threshold "_infinite" and consoleEnabled true, trace, debug,
\* info, warn and error are all suppressed, so error makes no capture call
\* either; and the ranks increase strictly along trace, debug, info, warn,
\* error, with the sentinel above error.
C14_SentinelSuppressesAll ==
    /\ (last.op \in ENUM_LEVELS /\ consoleEnabled /\ HasThreshold({"_infinite"}))
           => out = <<>>
    /\ \A k \in 1..(Len(Severity) - 1) :
           Gt(LOG_LEVELS[Severity[k + 1]], LOG_LEVELS[Severity[k]])
    /\ Gt(LOG_LEVELS["_infinite"], LOG_LEVELS[Severity[Len(Severity)]])

\* An error call on a facade with a capability, enabled, at the sentinel
\* threshold, produced nothing.
C14_Witness ==
    /\ last.op = "error" /\ HasCapability /\ consoleEnabled
    /\ HasThreshold({"_infinite"}) /\ out = <<>>

\* C16: the shared state changes only through reconfigure: constructing a
\* Logger and calling trace, debug, info, warn, error or replicants leave
\* consoleEnabled, the threshold and replicantLoggingEnabled as they were.
C16_OnlyReconfigureMutates ==
    [][last'.op # "globalReconfigure" => facades' = facades]_vars

\* An error call that was emitted and escalated, on the second instance of
\* a facade whose three fields all differ from the defaults.
C16_Witness ==
    /\ last.op = "error" /\ last.logger = 2 /\ Captures(out) = 1
    /\ consoleEnabled /\ HasThreshold({"trace"}) /\ replicantLoggingEnabled

\* C17: within an error call that is emitted on a facade with a capability,
\* the sink invocation on the "error" channel comes first and the capture
\* call comes after it, as the last effect of the call; there is no capture
\* without the sink invocation before it, and both belong to the one call.
C17_SinkThenCapture ==
    /\ (last.op = "error" /\ HasCapability /\ out # <<>>) =>
           /\ Len(out) = 2
           /\ IsSinkCall(out[1]) /\ out[1].method = "error"
           /\ IsCapture(out[2])
    /\ \A k \in DOMAIN out :
           IsCapture(out[k]) => (k > 1 /\ IsSinkCall(out[k - 1]))

\* An error call with two effects: the console call, then the capture.
C17_Witness ==
    /\ last.op = "error" /\ HasCapability /\ Len(out) = 2
    /\ IsSinkCall(out[1]) /\ IsCapture(out[2])

\* A logging call that kept its arguments, and was not suppressed: the
\* console is enabled (the threshold of this facade is trace, and its
\* replicant logging is on).
NotSuppressed ==
    /\ last.op \in Methods /\ last.opts.type = "arguments"
    /\ consoleEnabled
    /\ IF last.op = "replicants" THEN replicantLoggingEnabled
       ELSE Rank(last.op) >= Rank(Threshold.val)

\* The sequence the first effect of the call forwarded to the sink.
Forwarded == out[1].args

\* Whether a line starts with a sequence of characters.
Begins(line, p) == Len(line) >= Len(p) /\ \A k \in DOMAIN p : line[k] = p[k]

\* The characters of a line after its first n.
After(line, n) == [k \in 1..(Len(line) - n) |-> line[k + n]]

\* A line of a trace without its indentation.
RECURSIVE Unindented(_)
Unindented(line) ==
    IF Len(line) > 0 /\ line[1] = " " THEN Unindented(After(line, 1)) ELSE line

\* A line of a trace without the decoration in front of the caller: the
\* indented "at " of Chrome, the "@" of Firefox and Safari.
WithoutDecoration(line) ==
    IF Begins(Unindented(line), <<"a", "t", " ">>) THEN After(Unindented(line), 3)
    ELSE IF Begins(Unindented(line), <<"@">>) THEN After(Unindented(line), 1)
    ELSE line

\* The caller context the specification describes for a stack.
CallerContext(stack) ==
    IF stack.type = "string" /\ Len(stack.lines) >= 4
    THEN WithoutDecoration(stack.lines[4])
    ELSE <<>>

\* C13: a call with n values on an instance named N that is not suppressed
\* forwards exactly n + 2 elements: the prefix "[" + N + "]", the n values
\* unchanged and in order, and the caller-context string last.
C13_ForwardedSequence ==
    NotSuppressed =>
        /\ out # <<>> /\ IsSinkCall(out[1])
        /\ Len(Forwarded) = Len(last.opts.args) + 2
        /\ Forwarded[1] = Str("[" \o loggers[last.logger].name \o "]")
        /\ \A k \in DOMAIN last.opts.args : Forwarded[k + 1] = last.opts.args[k]
        /\ Forwarded[Len(Forwarded)].type = "string"
        /\ Forwarded[Len(Forwarded)] = Chars(CallerContext(last.opts.stack))

\* warn("slow query", 120) on the instance named "db": one sink call on the
\* "warn" channel that forwards "[db]", "slow query", 120 and the caller.
C13_Witness ==
    /\ NotSuppressed /\ last.op = "warn" /\ loggers[last.logger].name = "db"
    /\ last.opts.args = <<Str("slow query"), Num(120)>>
    /\ Len(out) = 1 /\ out[1].method = "warn" /\ Len(Forwarded) = 4
    /\ Forwarded[1] = Str("[db]")
    /\ Forwarded[2] = Str("slow query") /\ Forwarded[3] = Num(120)
    /\ Forwarded[4].type = "string"

\* C19: the caller context is the fourth line of the stack trace without its
\* leading "at " or "@" when the trace has four lines or more, and the empty
\* string when it has fewer or there is none; a short or missing trace
\* neither makes the call fail nor stops the emission.
C19_CallerContext ==
    NotSuppressed =>
        /\ out # <<>> /\ ~Threw(out) /\ IsSinkCall(out[1])
        /\ LET stack == last.opts.stack
               caller == Forwarded[Len(Forwarded)]
           IN  /\ (stack.type = "string" /\ Len(stack.lines) >= 4)
                      => caller = Chars(WithoutDecoration(stack.lines[4]))
               /\ (stack.type # "string" \/ Len(stack.lines) < 4)
                      => caller = Chars(<<>>)

\* Calls that were emitted with an empty caller context: one on a host
\* without traces, or with a trace of three lines.
C19_Witness ==
    /\ NotSuppressed /\ Len(out) >= 1 /\ IsSinkCall(out[1])
    /\ last.opts.stack = StackStr(ShortStack)
    /\ Forwarded[Len(Forwarded)] = Chars(<<>>)

\* The value of a field after a configuration that gives it the value given,
\* undefined when it supplies none: the supplied value, else the value the
\* field had.
Latest(given, before) == IF Supplied(given) THEN given ELSE before

\* The three fields of the shared filter state.
Fields == <<Bool(consoleEnabled), Threshold, Bool(replicantLoggingEnabled)>>

\* The fields after the configuration opts is applied to the fields before.
Merged(opts, before) ==
    <<Latest(GivenEnabled(opts), before[1]),
      Latest(GivenLevel(opts), before[2]),
      Latest(GivenReplicants(opts), before[3])>>

DefaultFields == <<Bool(FALSE), Str("info"), Bool(FALSE)>>

\* C15: at every point of every sequence of operations, each field of the
\* shared state is the value of the most recent of the initial
\* configuration and the reconfigure calls that supplied it, a supplied
\* false included, and the default (false, info, false) when none did.
\* Stated along the sequence: after initialization the fields are the
\* defaults overlaid with the initial configuration; a reconfigure overlays
\* its argument on the fields before it; any other operation leaves them;
\* and initialize() followed by reconfigure(c) gives the state of
\* initialize(c).
C15_MostRecentSupplied ==
    /\ [](last.op = "initialize" => Fields = Merged(last.opts, DefaultFields))
    /\ [][/\ last'.op = "globalReconfigure" => Fields' = Merged(last'.opts, Fields)
          /\ last'.op # "globalReconfigure" => Fields' = Fields
          /\ (last.op = "initialize" /\ last.opts = Undefined
                 /\ last'.op = "globalReconfigure")
               => Shared' = module_exports(last'.opts, Shared.Raven)]_vars

\* A reconfigure that supplied only consoleEnabled, as false: the console is
\* off, and the threshold and the replicant flag are those an earlier
\* configuration supplied.
C15_Witness ==
    /\ last.op = "globalReconfigure"
    /\ GivenEnabled(last.opts) = Bool(FALSE) /\ ~consoleEnabled
    /\ ~Supplied(GivenLevel(last.opts)) /\ HasThreshold({"warn"})
    /\ ~Supplied(GivenReplicants(last.opts)) /\ replicantLoggingEnabled

\* A logging call that passes the filter of its facade.
PassesFilter ==
    /\ last.op \in Methods /\ consoleEnabled
    /\ IF last.op = "replicants" THEN replicantLoggingEnabled
       ELSE HasThreshold(LevelNames) /\ Gt(Lookup(Threshold), LOG_LEVELS[last.op]) = FALSE

\* C18 as claimed: on a sink without variadic dispatch a call that passes the
\* filter does not fail; it makes exactly one sink call, whose single
\* argument is the whole message sequence, and for error the capture call
\* follows when a capability is present.
C18_FallbackEmits ==
    (sink # "variadic" /\ PassesFilter) =>
        /\ ~Threw(out)
        /\ SinkCalls(out) = 1
        /\ IsSinkCall(out[1]) /\ Len(out[1].args) = 1
        /\ out[1].args[1].type = "array"
        /\ (last.op = "error" /\ HasCapability) =>
               (Len(out) = 2 /\ IsCapture(out[2]))

\* An error call that passed the filter on a host whose console is an
\* object without variadic dispatch: it threw, and made neither a sink call
\* nor a capture call, a capability being present.
C18_Witness ==
    /\ sink = "object" /\ PassesFilter /\ last.op = "error" /\ HasCapability
    /\ Threw(out) /\ SinkCalls(out) = 0 /\ Captures(out) = 0

====
